---- MODULE Spec2Model ----
(***************************************************************************)
(* Rating and game-state model of api/models.py (capablanca-api).          *)
(*                                                                         *)
(* The Elo part models Elo._get_expected_score and Elo.update_rating as    *)
(* they are computed, together with the database row each Elo instance is  *)
(* read from and saved to.  The game part models the rows of Result,       *)
(* Board, Game, Move, Position and ClaimItem and the writes the models     *)
(* allow on them.                                                          *)
(*                                                                         *)
(* Numbers.  A score is carried as twice its value (score2 = 2 * score),   *)
(* so 0, 0.5, 1 are 0, 1, 2.  The float 10 ** (d / 400) is carried as a    *)
(* fraction with Scale as the unit of its mantissa: 10 ** (r / 400) for    *)
(* r in 0 .. 399 is Pow10Frac[r + 1] / Scale, and the decade d \div 400    *)
(* shifts it.  Python's round() on a float is round-half-to-even.          *)
(***************************************************************************)
EXTENDS Integers, Sequences, FiniteSets, TLC

(***************************************************************************)
(* Bounds of the model.                                                    *)
(***************************************************************************)
Players == {1, 2}
Games == {1, 2}
GameRows == {1}
InitRatings == {1000, 1200, 1400}
KFactors == {31, 32}
ScoreInputs == {0, 1, 2, 3}
MaxUpdates == 2
MaxMoves == 2
MaxClaims == 2
MaxTime == 2

(***************************************************************************)
(* Elo: defaults of the fields, src/api/models.py lines 25-29.             *)
(***************************************************************************)
DefaultRating == 1200
DefaultKFactor == 32

Scale == 100000

\* Pow10Frac[r + 1] = 10 ** (r / 400) * Scale, rounded, for r in 0 .. 399.
Pow10Frac ==
  <<
     100000, 100577, 101158, 101742, 102329, 102920, 103514, 104112, 104713, 105317,
     105925, 106537, 107152, 107771, 108393, 109018, 109648, 110281, 110917, 111558,
     112202, 112850, 113501, 114156, 114815, 115478, 116145, 116815, 117490, 118168,
     118850, 119536, 120226, 120921, 121619, 122321, 123027, 123737, 124451, 125170,
     125893, 126619, 127350, 128086, 128825, 129569, 130317, 131069, 131826, 132587,
     133352, 134122, 134896, 135675, 136458, 137246, 138038, 138835, 139637, 140443,
     141254, 142069, 142889, 143714, 144544, 145378, 146218, 147062, 147911, 148765,
     149624, 150487, 151356, 152230, 153109, 153993, 154882, 155776, 156675, 157580,
     158489, 159404, 160325, 161250, 162181, 163117, 164059, 165006, 165959, 166917,
     167880, 168850, 169824, 170805, 171791, 172783, 173780, 174783, 175792, 176807,
     177828, 178855, 179887, 180926, 181970, 183021, 184077, 185140, 186209, 187284,
     188365, 189452, 190546, 191646, 192752, 193865, 194984, 196110, 197242, 198381,
     199526, 200678, 201837, 203002, 204174, 205353, 206538, 207730, 208930, 210136,
     211349, 212569, 213796, 215030, 216272, 217520, 218776, 220039, 221309, 222587,
     223872, 225165, 226464, 227772, 229087, 230409, 231739, 233077, 234423, 235776,
     237137, 238506, 239883, 241268, 242661, 244062, 245471, 246888, 248313, 249747,
     251189, 252639, 254097, 255564, 257040, 258523, 260016, 261517, 263027, 264545,
     266073, 267609, 269153, 270707, 272270, 273842, 275423, 277013, 278612, 280221,
     281838, 283465, 285102, 286748, 288403, 290068, 291743, 293427, 295121, 296825,
     298538, 300262, 301995, 303739, 305492, 307256, 309030, 310814, 312608, 314413,
     316228, 318053, 319890, 321736, 323594, 325462, 327341, 329230, 331131, 333043,
     334965, 336899, 338844, 340800, 342768, 344747, 346737, 348739, 350752, 352777,
     354813, 356862, 358922, 360994, 363078, 365174, 367282, 369403, 371535, 373680,
     375837, 378007, 380189, 382384, 384592, 386812, 389045, 391291, 393550, 395822,
     398107, 400405, 402717, 405042, 407380, 409732, 412098, 414477, 416869, 419276,
     421697, 424131, 426580, 429042, 431519, 434010, 436516, 439036, 441570, 444120,
     446684, 449262, 451856, 454465, 457088, 459727, 462381, 465050, 467735, 470435,
     473151, 475883, 478630, 481393, 484172, 486968, 489779, 492606, 495450, 498310,
     501187, 504081, 506991, 509918, 512861, 515822, 518800, 521795, 524807, 527837,
     530884, 533949, 537032, 540132, 543250, 546387, 549541, 552713, 555904, 559114,
     562341, 565588, 568853, 572137, 575440, 578762, 582103, 585464, 588844, 592243,
     595662, 599101, 602560, 606038, 609537, 613056, 616595, 620155, 623735, 627336,
     630957, 634600, 638263, 641948, 645654, 649382, 653131, 656901, 660693, 664508,
     668344, 672202, 676083, 679986, 683912, 687860, 691831, 695825, 699842, 703882,
     707946, 712033, 716143, 720278, 724436, 728618, 732825, 737055, 741310, 745590,
     749894, 754223, 758578, 762957, 767361, 771792, 776247, 780728, 785236, 789769,
     794328, 798914, 803526, 808165, 812831, 817523, 822243, 826990, 831764, 836566,
     841395, 846253, 851138, 856052, 860994, 865964, 870964, 875992, 881049, 886135,
     891251, 896396, 901571, 906776, 912011, 917276, 922571, 927897, 933254, 938642,
     944061, 949511, 954993, 960506, 966051, 971628, 977237, 982879, 988553, 994260
  >>

RECURSIVE Pow10(_)
Pow10(j) == IF j <= 0 THEN 1 ELSE 10 * Pow10(j - 1)

\* 10 ** (d / 400) as the fraction num / den.
PowTen400(d) ==
  LET j == d \div 400
      m == Pow10Frac[(d % 400) + 1]
  IN  [num |-> m * Pow10(j), den |-> Scale * Pow10(-j)]

\* The expected score without the "1 +" of its denominator.
GetExpectedScoreNoOne(rating, opponent_rating) ==
  LET q == PowTen400(opponent_rating - rating)
  IN  [num |-> q.den, den |-> q.num]

\* Elo._get_expected_score: 1 / (1 + 10 ** ((opponent_rating - rating) / 400)),
\* as the fraction num / den.
GetExpectedScore(rating, opponent_rating) ==
  LET q == PowTen400(opponent_rating - rating)
  IN  [num |-> q.den, den |-> q.den + q.num]

\* Rounding to the nearest integer with a tie going up.
PyRoundHalfUp(base, num, den) ==
  base + ((2 * num + den) \div (2 * den))

\* Python round(base + num / den) for integers base, num and den > 0:
\* to the nearest integer, a tie going to the even neighbour.
PyRound(base, num, den) ==
  LET fl == base + (num \div den)
      rem == num % den
  IN  IF 2 * rem < den THEN fl
      ELSE IF 2 * rem > den THEN fl + 1
      ELSE IF fl % 2 = 0 THEN fl ELSE fl + 1

\* The new rating with score and expected score exchanged.
NewRatingSwapped(rating, k_factor, score2, opponent_rating) ==
  LET e == GetExpectedScore(rating, opponent_rating)
  IN  PyRound(rating, k_factor * (2 * e.num - score2 * e.den), 2 * e.den)

\* The value update_rating assigns to self.rating:
\* round(rating + k_factor * (score - expected_score)), score = score2 / 2.
NewRating(rating, k_factor, score2, opponent_rating) ==
  LET e == GetExpectedScore(rating, opponent_rating)
  IN  PyRound(rating, k_factor * (score2 * e.den - 2 * e.num), 2 * e.den)

(***************************************************************************)
(* Result: the statuses of RESULT_CHOICES and the default of description.  *)
(***************************************************************************)
SCHEDULED == "Scheduled"
POSTPONED == "Postponed"
FINISHED_NO_MOVES == "Finished (no moves)"
IN_PROGRESS == "In progress"
ADJOURNED == "Adjourned"
FINISHED_BASIC_RULES == "Finished (basic rules)"
FINISHED_CLOCK == "Finished (clock)"
DRAW == "Draw"
FINISHED_BREACH == "Finished (breach)"
FINISHED_COMPLIANCE == "Finished (compliance)"
TBD == "TBD"
ABANDONED == "Abandoned"
UNKNOWN == "Unknown"

RESULT_CHOICES ==
  { SCHEDULED, POSTPONED, FINISHED_NO_MOVES, IN_PROGRESS, ADJOURNED,
    FINISHED_BASIC_RULES, FINISHED_CLOCK, DRAW, FINISHED_BREACH,
    FINISHED_COMPLIANCE, TBD, ABANDONED, UNKNOWN }

ResultDefaultScheduled == SCHEDULED

\* Result.description: default=IN_PROGRESS.
ResultDefault == IN_PROGRESS

\* Board.layout: the default, split at its spaces into the fields of the string.
BoardDefaultLayout ==
  << "rnbqkbnr/pppppppp/8/8/8/8/PPPPPPPP/RNBQKBNR", "w", "KQkq", "-", "0", "1" >>

\* Claim.CLAIM_CHOICES
CLAIM_CHOICES == { "tr", "ft", "d" }

Null == "null"
NoDescription == "not given"

\* A table or a set of instances is a function from keys to rows.
NoRows == [k \in {} |-> Null]
Insert(table, key, row) ==
  [k \in DOMAIN table \cup {key} |-> IF k = key THEN row ELSE table[k]]
Delete(table, key) ==
  [k \in DOMAIN table \ {key} |-> table[k]]

(***************************************************************************)
(* State.                                                                  *)
(*   elo        the Elo row of each player in the database                 *)
(*   inst       the Elo instance the settlement of a game holds in memory  *)
(*   pregame    the ratings before any game was settled                    *)
(*   log        the calls of update_rating made so far                     *)
(*   game, result, board   the Game, Result and Board rows of a game       *)
(*   moves, positions, captured   the numbers of Move rows, Position rows  *)
(*              and captured Piece rows of a game's board                  *)
(*   claimItems the number of ClaimItem rows raised by a game's players    *)
(***************************************************************************)
VARIABLES elo, inst, pregame, log,
          game, result, board, moves, positions, captured, claimItems

eloVars == << elo, inst, pregame, log >>
gameVars == << game, result, board, moves, positions, captured, claimItems >>
vars == << elo, inst, pregame, log,
           game, result, board, moves, positions, captured, claimItems >>

\* An Elo row as the model constructs it: counters 0 (lines 27-29).
EloRow(rating, k_factor) ==
  [rating |-> rating, k_factor |-> k_factor,
   wins |-> 0, losses |-> 0, draws |-> 0, updated_at |-> 0]

InitGameRows ==
  /\ game = NoRows
  /\ result = NoRows
  /\ board = NoRows
  /\ moves = [g \in GameRows |-> 0]
  /\ positions = [g \in GameRows |-> 0]
  /\ captured = [g \in GameRows |-> 0]
  /\ claimItems = [g \in GameRows |-> 0]

\* The rating part starts from Elo rows of any of the ratings and k-factors.
Init ==
  /\ \E r \in [Players -> InitRatings], k \in [Players -> KFactors] :
        /\ elo = [p \in Players |-> EloRow(r[p], k[p])]
        /\ pregame = r
  /\ inst = NoRows
  /\ log = << >>
  /\ InitGameRows

\* The game part starts from Elo rows with the defaults of the fields.
InitGame ==
  /\ elo = [p \in Players |-> EloRow(DefaultRating, DefaultKFactor)]
  /\ pregame = [p \in Players |-> DefaultRating]
  /\ inst = NoRows
  /\ log = << >>
  /\ InitGameRows

(***************************************************************************)
(* Rating part.                                                            *)
(***************************************************************************)
Abs(x) == IF x < 0 THEN -x ELSE x

\* The settlement of game g reads player p's Elo row into an instance.
Load(g, p) ==
  /\ g \notin DOMAIN inst
  /\ Len(log) < MaxUpdates
  /\ inst' = Insert(inst, g, [player |-> p, row |-> elo[p]])
  /\ UNCHANGED << elo, pregame, log >>
  /\ UNCHANGED gameVars

\* A save that writes the instance's rating to every Elo row.
SaveEveryRow(p, row, time) ==
  [q \in DOMAIN elo |->
     IF q = p THEN [row EXCEPT !.updated_at = time]
     ELSE [elo[q] EXCEPT !.rating = row.rating]]

\* Model.save() of an Elo instance: every field of the instance is written
\* to the player's row, updated_at (auto_now) to the time of the save.
Save(p, row, time) ==
  [elo EXCEPT ![p] = [row EXCEPT !.updated_at = time]]

\* Elo.update_rating(score, opponent_rating) on the instance the settlement
\* of game g holds; the instance is dropped when the settlement returns.
UpdateRating(g, score2, opponent_rating) ==
  /\ g \in DOMAIN inst
  /\ Len(log) < MaxUpdates
  /\ LET self == inst[g].row
         p == inst[g].player
         rating == NewRating(self.rating, self.k_factor, score2, opponent_rating)
         saved == Save(p, [self EXCEPT !.rating = rating], Len(log) + 1)
     IN  /\ elo' = saved
         /\ log' = Append(log, [game |-> g, player |-> p, score2 |-> score2,
                                opponent_rating |-> opponent_rating,
                                self |-> self, stored |-> elo[p],
                                saved |-> saved[p], raised |-> "none"])
  /\ inst' = Delete(inst, g)
  /\ UNCHANGED pregame
  /\ UNCHANGED gameVars

\* The rating a settlement passes as opponent_rating: the rating the
\* opponent q had before any game was settled.
PreGameRating(q) == pregame[q]

NextRating ==
  \/ \E g \in Games, p \in Players : Load(g, p)
  \/ \E g \in DOMAIN inst, s \in ScoreInputs :
        \E q \in Players \ {inst[g].player} :
           UpdateRating(g, s, PreGameRating(q))

Next == NextRating

Spec == Init /\ [][Next]_vars

(***************************************************************************)
(* Game part.  The models define no method that changes a game: the rows   *)
(* are written through Model.save(), which checks nothing about the Game's *)
(* Result.                                                                 *)
(***************************************************************************)
\* Result(description=...) when a status is given, Result() when none is.
NewResult(description) ==
  [description |-> IF description = NoDescription THEN ResultDefault
                   ELSE description]

\* Board(): layout takes its default.
NewBoard == [layout |-> BoardDefaultLayout]

\* Game(whites_player=..., blacks_player=..., result=..., board=...):
\* end_timestamp is null.
NewGame(g, whites_player, blacks_player) ==
  [whites_player |-> whites_player, blacks_player |-> blacks_player,
   end_timestamp |-> Null, result |-> g, board |-> g]

\* A Game is created with its Result and its Board.
CreateGame(g, whites_player, blacks_player, description) ==
  /\ g \notin DOMAIN game
  /\ result' = Insert(result, g, NewResult(description))
  /\ board' = Insert(board, g, NewBoard)
  /\ game' = Insert(game, g, NewGame(g, whites_player, blacks_player))
  /\ UNCHANGED << moves, positions, captured, claimItems >>
  /\ UNCHANGED eloVars

\* A move of a piece of the game's board: a Move row and a Position row are
\* created, and the piece it takes, if any, is saved with captured = True.
ApplyMove(g, capture) ==
  /\ g \in DOMAIN game
  /\ moves[g] < MaxMoves
  /\ moves' = [moves EXCEPT ![g] = @ + 1]
  /\ positions' = [positions EXCEPT ![g] = @ + 1]
  /\ captured' = [captured EXCEPT ![g] = IF capture THEN @ + 1 ELSE @]
  /\ UNCHANGED << game, result, board, claimItems >>
  /\ UNCHANGED eloVars

\* A claim of one of the game's players: a ClaimItem row is created.
SubmitClaim(g, player, claim_type) ==
  /\ g \in DOMAIN game
  /\ player \in {game[g].whites_player, game[g].blacks_player}
  /\ claimItems[g] < MaxClaims
  /\ claimItems' = [claimItems EXCEPT ![g] = @ + 1]
  /\ UNCHANGED << game, result, board, moves, positions, captured >>
  /\ UNCHANGED eloVars

\* The Result of the game is saved with another description.
SetResult(g, description) ==
  /\ g \in DOMAIN game
  /\ result' = [result EXCEPT ![g].description = description]
  /\ UNCHANGED << game, board, moves, positions, captured, claimItems >>
  /\ UNCHANGED eloVars

\* The Game is saved with end_timestamp = time.
SetEndTimestamp(g, time) ==
  /\ g \in DOMAIN game
  /\ game' = [game EXCEPT ![g].end_timestamp = time]
  /\ UNCHANGED << result, board, moves, positions, captured, claimItems >>
  /\ UNCHANGED eloVars

NextGame ==
  \/ \E g \in GameRows, w \in Players, d \in RESULT_CHOICES \cup {NoDescription} :
        \E b \in Players \ {w} : CreateGame(g, w, b, d)
  \/ \E g \in GameRows, c \in BOOLEAN : ApplyMove(g, c)
  \/ \E g \in GameRows, p \in Players, c \in CLAIM_CHOICES : SubmitClaim(g, p, c)
  \/ \E g \in GameRows, d \in RESULT_CHOICES : SetResult(g, d)
  \/ \E g \in GameRows, t \in 1..MaxTime : SetEndTimestamp(g, t)

SpecGame == InitGame /\ [][NextGame]_vars

(***************************************************************************)
(* Properties.                                                             *)
(***************************************************************************)
Calls == 1..Len(log)
CallsOf(p) == { i \in Calls : log[i].player = p }
ValidScore(score2) == score2 \in {0, 1, 2}
Delta(c) == c.saved.rating - c.self.rating
SameCounters(a, b) ==
  a.wins = b.wins /\ a.losses = b.losses /\ a.draws = b.draws

\* Two calls that settle one decisive game between two players: the winner
\* was called with the loser's rating as opponent_rating and the loser with
\* the winner's, and both have the same k_factor.
DecisivePair(i, j) ==
  /\ log[i].player # log[j].player
  /\ log[i].score2 = 2
  /\ log[j].score2 = 0
  /\ log[i].opponent_rating = log[j].self.rating
  /\ log[j].opponent_rating = log[i].self.rating
  /\ log[i].self.k_factor = log[j].self.k_factor

\* C1: with the same k-factor, the rating change of the winner (score 1,
\* rating R1, opponent R2) is exactly the opposite of the rating change of
\* the loser (score 0, rating R2, opponent R1), after rounding.
C1_ZeroSum ==
  \A i \in Calls, j \in Calls :
     DecisivePair(i, j) => Delta(log[i]) = -Delta(log[j])

\* C1 witness: a decisive pair at equal ratings with an odd k-factor, where
\* k_factor * 0.5 is a tie of the rounding.
C1_Witness ==
  \E i \in Calls, j \in Calls :
     /\ DecisivePair(i, j)
     /\ log[i].self.rating = log[j].self.rating
     /\ log[i].self.k_factor % 2 = 1
     /\ Delta(log[i]) > 0

\* C2: each call of update_rating persists the new rating and increments
\* exactly one of wins, losses and draws according to the score, so that
\* wins + losses + draws of a player is the number of games settled for it.
C2_CountersFollowScore ==
  /\ \A i \in Calls :
        LET c == log[i]
        IN  /\ c.saved.wins = c.self.wins + (IF c.score2 = 2 THEN 1 ELSE 0)
            /\ c.saved.losses = c.self.losses + (IF c.score2 = 0 THEN 1 ELSE 0)
            /\ c.saved.draws = c.self.draws + (IF c.score2 = 1 THEN 1 ELSE 0)
  /\ \A p \in Players :
        elo[p].wins + elo[p].losses + elo[p].draws
          = Cardinality({ i \in CallsOf(p) : ValidScore(log[i].score2) })

\* C3: a second call of update_rating for the same game and player fails
\* with AlreadySettled and changes neither the rating nor the counters.
C3_SecondSettlementFails ==
  \A i \in Calls, j \in Calls :
     (i < j /\ log[i].game = log[j].game /\ log[i].player = log[j].player)
       => /\ log[j].raised = "AlreadySettled"
          /\ log[j].saved.rating = log[j].stored.rating
          /\ SameCounters(log[j].saved, log[j].stored)

\* The rating of a player after the calls i and then j, one after the other.
Sequential(p, i, j) ==
  LET k == elo[p].k_factor
      first == NewRating(PreGameRating(p), k, log[i].score2, log[i].opponent_rating)
  IN  NewRating(first, k, log[j].score2, log[j].opponent_rating)

\* C4: when the settlements of two different games update the same player,
\* the final rating is the result of the two updates in one of the two
\* sequential orders, in every interleaving.
C4_NoLostUpdate ==
  \A i \in Calls, j \in Calls :
     LET p == log[i].player
     IN  (i < j /\ log[i].game # log[j].game /\ log[j].player = p
          /\ CallsOf(p) = {i, j})
           => elo[p].rating \in { Sequential(p, i, j), Sequential(p, j, i) }

\* Two calls that settle one game for its two players, each called with the
\* pre-game rating of the other and each the only call for its player.
SettlementPair(i, j) ==
  /\ log[i].game = log[j].game
  /\ log[i].player # log[j].player
  /\ CallsOf(log[i].player) = {i}
  /\ CallsOf(log[j].player) = {j}
  /\ log[i].opponent_rating = PreGameRating(log[j].player)
  /\ log[j].opponent_rating = PreGameRating(log[i].player)

C6_InvalidScoreRejected ==
  \A i \in Calls :
     ~ValidScore(log[i].score2)
       => /\ log[i].raised = "InvalidScore"
          /\ log[i].saved.rating = log[i].stored.rating

\* C7: when opponent_rating is the player's own rating the new rating is
\* round(rating + k_factor * (score - 0.5)); a draw leaves the rating
\* unchanged, and from 1200 with K = 32 a win gives 1216 and a loss 1184.
C7_EqualRatings ==
  \A i \in Calls :
     LET c == log[i]
         r == c.self.rating
         k == c.self.k_factor
         half == k * (c.score2 - 1)
     IN  c.opponent_rating = r
           => /\ half % 2 = 0 => c.saved.rating = r + (half \div 2)
              /\ half % 2 = 1 =>
                   /\ c.saved.rating \in { r + ((half - 1) \div 2),
                                           r + ((half + 1) \div 2) }
                   /\ c.saved.rating % 2 = 0
              /\ c.score2 = 1 => c.saved.rating = r
              /\ (r = 1200 /\ k = 32 /\ c.score2 = 2) => c.saved.rating = 1216
              /\ (r = 1200 /\ k = 32 /\ c.score2 = 0) => c.saved.rating = 1184

\* C7 witness: from 1200 with K = 32 against 1200, a win, a loss and a draw
\* have each been applied in some call.
C7_Witness ==
  \E i \in Calls :
     /\ log[i].opponent_rating = 1200
     /\ log[i].self.rating = 1200
     /\ log[i].self.k_factor = 32
     /\ log[i].score2 = 2
     /\ log[i].saved.rating = 1216

StandardLayout ==
  << "rnbqkbnr/pppppppp/8/8/8/8/PPPPPPPP/RNBQKBNR", "w", "KQkq", "-", "0", "1" >>

\* What every creation of a Game gives: the standard starting layout in six
\* fields and a null end_timestamp.
FreshBoardAndGame(g) ==
  /\ board'[g].layout = StandardLayout
  /\ Len(board'[g].layout) = 6
  /\ game'[g].end_timestamp = Null
  /\ moves'[g] = 0

\* C8 as amended: a newly created Game has the standard starting layout and
\* a null end_timestamp; its Result is the status given, and In progress
\* when no status is given.
C8_NewGameInProgress ==
  [][ \A g \in GameRows, w \in Players, b \in Players,
         d \in RESULT_CHOICES \cup {NoDescription} :
        CreateGame(g, w, b, d)
          => /\ FreshBoardAndGame(g)
             /\ result'[g].description
                  = (IF d = NoDescription THEN IN_PROGRESS ELSE d) ]_vars

\* C8 as claimed: a Game created without an explicit status starts with
\* Result = Scheduled, the standard starting layout and a null end_timestamp.
C8_NewGameScheduled ==
  [][ \A g \in GameRows, w \in Players, b \in Players :
        CreateGame(g, w, b, NoDescription)
          => /\ FreshBoardAndGame(g)
             /\ result'[g].description = SCHEDULED ]_vars

\* C8 witness: a Game as it is right after its creation without a status.
C8_Witness ==
  \E g \in DOMAIN game :
     /\ result[g].description = IN_PROGRESS
     /\ board[g].layout = StandardLayout
     /\ game[g].end_timestamp = Null
     /\ moves[g] = 0
     /\ claimItems[g] = 0

Terminal(description) ==
  description \notin { SCHEDULED, IN_PROGRESS, POSTPONED, ADJOURNED }

\* C9: once the Result of a Game is terminal, no step appends a Move or a
\* Position, alters a Piece, records a claim, replaces the Result or sets
\* end_timestamp again.
C9_TerminalGameImmutable ==
  [][ \A g \in DOMAIN game :
        Terminal(result[g].description)
          => /\ moves'[g] = moves[g]
             /\ positions'[g] = positions[g]
             /\ captured'[g] = captured[g]
             /\ claimItems'[g] = claimItems[g]
             /\ result'[g] = result[g]
             /\ game'[g] = game[g] ]_vars

\* C10: with a valid score and a positive k_factor the rating moves in the
\* direction of the score and by at most k_factor, and stays an integer.
C10_BoundedDirectedChange ==
  \A i \in Calls :
     LET c == log[i]
     IN  (ValidScore(c.score2) /\ c.self.k_factor > 0)
           => /\ c.score2 = 2 => Delta(c) >= 0
              /\ c.score2 = 0 => Delta(c) <= 0
              /\ Abs(Delta(c)) <= c.self.k_factor
              /\ c.saved.rating \in Int

\* C10 witness: calls against a stronger and a weaker opponent that changed
\* the rating, a win upwards and a loss downwards.
C10_Witness ==
  /\ \E i \in Calls :
        /\ log[i].score2 = 2
        /\ log[i].opponent_rating > log[i].self.rating
        /\ Delta(log[i]) > log[i].self.k_factor \div 2
  /\ \E i \in Calls :
        /\ log[i].score2 = 0
        /\ log[i].opponent_rating < log[i].self.rating
        /\ Delta(log[i]) < 0

====
